---- MODULE Spec2Model ----
(***************************************************************************)
(* Shortest-path and traversal engine of the algorithm exercises:          *)
(*   Graph / dijkstra_heap / reconstruct_path   (Final Project Algo/task_3)*)
(*   dfs_path / bfs_path                        (goit-algo-hw-06/task2)    *)
(*   bfs_path / compare_dijkstra_bfs            (goit-algo-hw-06/task3)    *)
(* Vertices are integers (Python compares vertex identities with <, both   *)
(* in sorted() and inside the (distance, vertex) heap tuples).             *)
(***************************************************************************)
EXTENDS Integers, Sequences, FiniteSets, TLC

\* ------------------------------------------------------------------ bounds
\* at most MaxEdges calls of Graph.add_edge build the graph
MaxEdges == 3

\* the vertex identities and the (non-negative) edge weights the caller uses
Vertices == {1, 2, 3}
Weights == {0, 1}

\* the data of the nodes of a linked list, and how many nodes a list has
Data == {1, 2, 3}
MaxNodes == 4

\* the lengths of the cables, and how many cables a list has
Lengths == 1..6
MaxCables == 4

\* the costs and calories of the food items, how many items there are and how
\* large the budget is
Costs == 0..2
Calories == 0..2
MaxItems == 3
MaxBudget == 4

\* the largest amount of change
MaxAmount == 113

\* how many add_edge calls build a graph whose searches are followed step by step
MaxBuilt == 2

\* the negative weight a caller may pass to add_edge, and how far below zero a
\* run of dijkstra_heap is followed
NegativeWeights == {-1}
MaxDescent == 2

\* ------------------------------------------------------- program constants
\* float('inf'): larger than every path weight; never the result of a sum.
Inf == 1000000
\* Python's None as a predecessor (no vertex has identity 0).
None == 0
\* A None path: every path the code returns has at least one vertex.
NoPath == <<>>

VARIABLES
    adjacency_list,   \* Graph.adjacency_list: vertex -> sequence of <<v, w>>
    calls,            \* number of add_edge / add_node calls made so far
    all_undirected,   \* history: every add_edge call so far had undirected=True
    mentioned,        \* history: the vertices passed to add_edge so far
    pc,               \* position of the caller / of the running function
    start,            \* the source (dijkstra) or the start (bfs/dfs)
    dist, prev, heap, \* locals of dijkstra_heap
    current_dist, u, edge_idx, \* the popped entry and the position of the for loop
    run, first,       \* which call of dijkstra_heap this is; <<dist, prev>> of the first
    target,           \* argument of reconstruct_path / goal of a search
    path,             \* the last returned path
    visited_order,    \* the visit order returned by bfs_path / dfs_path
    cmp,              \* the record returned by compare_dijkstra_bfs
    error,            \* the exception the last call raised, "" when it returned
    taken,            \* history: the vertices the last search took from its queue / stack
    distance_matrix,  \* the matrix returned by create_distance_matrix
    args,             \* the argument of a call of one of the stand-alone functions
    returned          \* what that call returned

vars == <<adjacency_list, calls, all_undirected, mentioned, pc, start, dist, prev, heap,
          current_dist, u, edge_idx, run, first, target, path, visited_order, cmp,
          error, taken, distance_matrix, args, returned>>

graphVars == <<adjacency_list, calls, all_undirected, mentioned>>
dijkstraVars == <<start, dist, prev, heap, current_dist, u, edge_idx>>
resultVars == <<target, path, visited_order, cmp>>
engineVars == <<graphVars, dijkstraVars, run, first, resultVars, error, taken, distance_matrix>>

\* ------------------------------------------------------------------ Graph
\* dict.setdefault(k, []) followed by an optional append
SetDefault(adj, k) ==
    IF k \in DOMAIN adj THEN adj ELSE [x \in DOMAIN adj \cup {k} |-> IF x = k THEN <<>> ELSE adj[x]]

AppendTo(adj, k, e) == [adj EXCEPT ![k] = Append(@, e)]

\* add_edge without the reverse entry of an undirected edge
add_edge_forward_only(adj, a, b, w, undirected) ==
    SetDefault(AppendTo(SetDefault(adj, a), a, <<b, w>>), b)

\* add_edge without the else branch that registers b
add_edge_no_else(adj, a, b, w, undirected) ==
    LET adj1 == AppendTo(SetDefault(adj, a), a, <<b, w>>)
    IN  IF undirected THEN AppendTo(SetDefault(adj1, b), b, <<a, w>>) ELSE adj1

add_edge(adj, a, b, w, undirected) ==
    LET adj1 == AppendTo(SetDefault(adj, a), a, <<b, w>>)
    IN  IF undirected
          THEN AppendTo(SetDefault(adj1, b), b, <<a, w>>)
          ELSE SetDefault(adj1, b)

vertices(adj) == DOMAIN adj

\* -------------------------------------------------------------------- heapq
\* a comparison of the distances only
TupleLessKeyOnly(x, y) == x[1] < y[1]

\* Python tuple comparison of (distance, vertex)
TupleLess(x, y) == x[1] < y[1] \/ (x[1] = y[1] /\ x[2] < y[2])

\* heapq._siftdown on a 1-based sequence (pos, startpos are 1-based)
RECURSIVE siftdown(_, _, _, _)
siftdown(h, startpos, pos, newitem) ==
    IF pos > startpos /\ TupleLess(newitem, h[pos \div 2])
      THEN siftdown([h EXCEPT ![pos] = h[pos \div 2]], startpos, pos \div 2, newitem)
      ELSE [h EXCEPT ![pos] = newitem]

\* heapq._siftup: bubble the smaller child up to a leaf, then sift newitem down
RECURSIVE siftup_loop(_, _, _)
siftup_loop(h, pos, newitem) ==
    LET childpos == 2 * pos
        rightpos == childpos + 1
        c == IF rightpos <= Len(h) /\ ~TupleLess(h[childpos], h[rightpos])
               THEN rightpos ELSE childpos
    IN  IF childpos <= Len(h)
          THEN siftup_loop([h EXCEPT ![pos] = h[c]], c, newitem)
          ELSE <<h, pos>>

siftup(h, pos) ==
    LET newitem == h[pos]
        r == siftup_loop(h, pos, newitem)
    IN  siftdown(r[1], pos, r[2], newitem)

heappush(h, item) == siftdown(Append(h, item), 1, Len(h) + 1, item)

\* the item pushed last is returned, whatever its key
heappop_last(h) == <<h[Len(h)], SubSeq(h, 1, Len(h) - 1)>>

\* the smallest item is returned and left in the heap
heappop_peek(h) == <<h[1], h>>

\* heappop returns <<item, heap'>>
heappop(h) ==
    LET lastelt == h[Len(h)]
        rest == SubSeq(h, 1, Len(h) - 1)
    IN  IF rest # <<>>
          THEN <<h[1], siftup([rest EXCEPT ![1] = lastelt], 1)>>
          ELSE <<lastelt, rest>>

\* an equal distance counts as an improvement
FloatLessOrEqual(a, b) == a # Inf /\ (b = Inf \/ a <= b)

\* ------------------------------------------------------------ dijkstra_heap
\* a < b on floats where either side may be float('inf')
FloatLess(a, b) == a # Inf /\ (b = Inf \/ a < b)

\* line 40-41: dist = {v: inf}; dist[start] = 0 (the assignment creates the key
\* of a start that is not a vertex)
InitialDist(adj, s) == [v \in vertices(adj) \cup {s} |-> IF v = s THEN 0 ELSE Inf]

\* every vertex starts as its own predecessor
InitialPrevSelf(adj) == [v \in vertices(adj) |-> v]

\* line 42: prev = {v: None}
InitialPrev(adj) == [v \in vertices(adj) |-> None]

\* no entry is taken for outdated
NeverStale(d, best) == FALSE

\* an entry equal to the best distance is dropped as well
IsStaleOrEqual(d, best) == d >= best

\* line 52: the popped entry is outdated
IsStale(d, best) == d > best

\* one more than the sum
DistanceThroughPlusOne(cd, weight) == cd + weight + 1

\* the weight of the edge is left out
DistanceThroughNoWeight(cd, weight) == cd

\* line 57: distance_through_u = current_dist + weight
DistanceThrough(cd, weight) == cd + weight

\* --------------------------------------------------------- reconstruct_path
\* the walk is returned as built, target first
ReverseSkipped(s) == s

\* line 75: list(reversed(path))
Reverse(s) == [i \in 1..Len(s) |-> s[Len(s) + 1 - i]]

\* lines 70-74: the backward walk from cur, appended to acc
RECURSIVE WalkBack(_, _, _)
WalkBack(pr, cur, acc) ==
    IF cur = None THEN acc ELSE WalkBack(pr, pr[cur], Append(acc, cur))

\* the None test without "start != target"
reconstruct_path_none_for_start(pr, s, t) ==
    IF pr[t] = None
      THEN NoPath
      ELSE Reverse(WalkBack(pr, t, <<>>))

\* lines 66-75
reconstruct_path(pr, s, t) ==
    IF pr[t] = None /\ s # t
      THEN NoPath
      ELSE Reverse(WalkBack(pr, t, <<>>))

\* ------------------------------------------------------ graph.neighbors, sorted
\* graph.nodes() in the place of graph.neighbors(node)
AllNodes(adj, node) == DOMAIN adj

\* graph.neighbors(node): the distinct vertices adjacent to node
Neighbors(adj, node) == {adj[node][i][1] : i \in 1..Len(adj[node])}

\* sorted(list(S)) for a set of distinct vertices
RECURSIVE Sorted(_)
Sorted(S) ==
    IF S = {} THEN <<>>
    ELSE LET m == CHOOSE x \in S : \A y \in S : x <= y
         IN  <<m>> \o Sorted(S \ {m})

\* the neighbours are sorted without reverse=True
SortedAscending(S) == Sorted(S)

\* sorted(list(S), reverse=True)
SortedReverse(S) == Reverse(Sorted(S))

\* graph[a][b]['weight']: the weight last given to the edge a - b
RECURSIVE LastWeight(_, _, _)
LastWeight(edges, b, i) ==
    IF edges[i][1] = b THEN edges[i][2] ELSE LastWeight(edges, b, i - 1)

EdgeWeight(adj, a, b) == LastWeight(adj[a], b, Len(adj[a]))

\* ------------------------------------------------------- bfs_path (hw-06/task2)
\* queue.pop(): the last path is taken instead of the first
PopRight(q) == <<q[Len(q)], SubSeq(q, 1, Len(q) - 1)>>

\* queue.popleft(): <<the first path, the rest>>
PopLeft(q) == <<Head(q), Tail(q)>>

\* lines 135-141: the for loop over the sorted neighbours, from position i
RECURSIVE BfsExpand(_, _, _, _)
BfsExpand(nbrs, i, p, st) ==
    IF i > Len(nbrs) THEN st
    ELSE IF nbrs[i] \in st.visited
           THEN BfsExpand(nbrs, i + 1, p, st)
           ELSE BfsExpand(nbrs, i + 1, p,
                    [st EXCEPT !.visited = @ \cup {nbrs[i]},
                               !.visited_order = Append(@, nbrs[i]),
                               !.queue = Append(@, Append(p, nbrs[i]))])

\* the neighbours are enqueued without being marked visited
RECURSIVE BfsExpandNoMark(_, _, _, _)
BfsExpandNoMark(nbrs, i, p, st) ==
    IF i > Len(nbrs) THEN st
    ELSE IF nbrs[i] \in st.visited
           THEN BfsExpandNoMark(nbrs, i + 1, p, st)
           ELSE BfsExpandNoMark(nbrs, i + 1, p,
                    [st EXCEPT !.visited_order = Append(@, nbrs[i]),
                               !.queue = Append(@, Append(p, nbrs[i]))])

\* a vertex is marked visited when it is dequeued, as dfs_path does
BfsIterMarkOnDequeue(adj, goal, st) ==
    LET r == PopLeft(st.queue)
        p == r[1]
        node == p[Len(p)]
        st1 == [st EXCEPT !.queue = r[2], !.visited = @ \cup {node}]
    IN  IF node = goal
          THEN [st1 EXCEPT !.result = p, !.done = TRUE]
          ELSE IF node \in st.visited /\ Len(p) > 1
                 THEN st1
                 ELSE BfsExpandNoMark(Sorted(Neighbors(adj, node)), 1, p, st1)

\* lines 126-141: one iteration of the while loop; graph.neighbors(node) raises
\* NetworkXError for a node that is not in the graph; dequeued records the
\* vertices taken from the queue so far
BfsIter(adj, goal, st) ==
    LET r == PopLeft(st.queue)
        p == r[1]
        node == p[Len(p)]
        st1 == [st EXCEPT !.queue = r[2], !.dequeued = Append(@, node)]
    IN  IF node = goal
          THEN [st1 EXCEPT !.result = p, !.done = TRUE]
          ELSE IF node \notin DOMAIN adj
                 THEN [st1 EXCEPT !.raised = TRUE, !.done = TRUE]
                 ELSE BfsExpand(Sorted(Neighbors(adj, node)), 1, p, st1)

\* lines 121-123: the state at the loop head
BfsStart(s) ==
    [queue |-> <<<<s>>>>, visited |-> {s}, visited_order |-> <<s>>,
     result |-> NoPath, done |-> FALSE, raised |-> FALSE, dequeued |-> <<>>]

\* lines 125, 143: the while loop, returning None when the queue runs empty
RECURSIVE BfsLoop(_, _, _)
BfsLoop(adj, goal, st) ==
    IF st.done THEN st
    ELSE IF st.queue = <<>> THEN [st EXCEPT !.done = TRUE]
    ELSE BfsLoop(adj, goal, BfsIter(adj, goal, st))

\* bfs_path(graph, start, goal) of task2: <<path, visited_order>>
bfs_path_order(adj, s, goal) ==
    LET st == BfsLoop(adj, goal, BfsStart(s))
    IN  <<st.result, st.visited_order>>

\* ------------------------------------------------------- bfs_path (hw-06/task3)
\* the same search without the visit order: lines 246-264, returns the path
bfs_path(adj, s, goal) ==
    BfsLoop(adj, goal, BfsStart(s)).result

\* ------------------------------------------------------- dfs_path (hw-06/task2)
\* lines 99-103: push the unvisited neighbours, from position i
RECURSIVE DfsPush(_, _, _, _)
DfsPush(nbrs, i, p, st) ==
    IF i > Len(nbrs) THEN st
    ELSE IF nbrs[i] \in st.visited
           THEN DfsPush(nbrs, i + 1, p, st)
           ELSE DfsPush(nbrs, i + 1, p, [st EXCEPT !.stack = Append(@, Append(p, nbrs[i]))])

\* lines 86-103: one iteration of the while loop; graph.neighbors(node) raises
\* NetworkXError for a node that is not in the graph; popped records the
\* vertices taken from the stack so far
DfsIter(adj, goal, st) ==
    LET p == st.stack[Len(st.stack)]
        rest == SubSeq(st.stack, 1, Len(st.stack) - 1)
        node == p[Len(p)]
        st1 == [st EXCEPT !.stack = rest, !.popped = Append(@, node)]
    IN  IF node \in st.visited THEN st1
        ELSE LET st2 == [st1 EXCEPT !.visited = @ \cup {node},
                                    !.visited_order = Append(@, node)]
             IN  IF node = goal
                   THEN [st2 EXCEPT !.result = p, !.done = TRUE]
                   ELSE IF node \notin DOMAIN adj
                          THEN [st2 EXCEPT !.raised = TRUE, !.done = TRUE]
                          ELSE DfsPush(SortedReverse(Neighbors(adj, node)), 1, p, st2)

\* the start is marked visited before the loop, as bfs_path does
DfsStartMarked(s) ==
    [stack |-> <<<<s>>>>, visited |-> {s}, visited_order |-> <<s>>,
     result |-> NoPath, done |-> FALSE, raised |-> FALSE, popped |-> <<>>]

\* lines 81-83
DfsStart(s) ==
    [stack |-> <<<<s>>>>, visited |-> {}, visited_order |-> <<>>,
     result |-> NoPath, done |-> FALSE, raised |-> FALSE, popped |-> <<>>]

RECURSIVE DfsLoop(_, _, _)
DfsLoop(adj, goal, st) ==
    IF st.done THEN st
    ELSE IF st.stack = <<>> THEN [st EXCEPT !.done = TRUE]
    ELSE DfsLoop(adj, goal, DfsIter(adj, goal, st))

\* dfs_path(graph, start, goal): <<path, visited_order>>
dfs_path(adj, s, goal) ==
    LET st == DfsLoop(adj, goal, DfsStart(s))
    IN  <<st.result, st.visited_order>>

\* ------------------------------------------------------ compare_dijkstra_bfs
\* lines 280-281: the sum of the edge weights along a path
RECURSIVE PathTime(_, _, _)
PathTime(adj, p, i) ==
    IF i >= Len(p) THEN 0
    ELSE EdgeWeight(adj, p[i], p[i + 1]) + PathTime(adj, p, i + 1)

\* lines 275-291; all_lengths[source] and all_paths[source] are the distances
\* and paths of the single-source run from source
compare_dijkstra_bfs(adj, s, t, lengths, pr) ==
    LET dijkstra_path == reconstruct_path(pr, s, t)
        dijkstra_length == lengths[t]
        bfs_result == bfs_path(adj, s, t)
        bfs_time == PathTime(adj, bfs_result, 1)
    IN  [dijkstra_path |-> dijkstra_path,
         dijkstra_time |-> dijkstra_length,
         dijkstra_hops |-> Len(dijkstra_path) - 1,
         bfs_path |-> bfs_result,
         bfs_time |-> bfs_time,
         bfs_hops |-> Len(bfs_result) - 1,
         time_saved |-> bfs_time - dijkstra_length]

\* ------------------------------------------ distance matrix (hw-06/task3)
\* one round of relaxations of every edge on the distance map d
RelaxAll(adj, d) ==
    [v \in DOMAIN adj |->
        LET through == {d[x] + EdgeWeight(adj, x, v) :
                           x \in {y \in DOMAIN adj : d[y] # Inf /\ v \in Neighbors(adj, y)}}
            all == through \cup {d[v]}
        IN  CHOOSE m \in all : \A o \in all : m <= o]

RECURSIVE RelaxRounds(_, _, _)
RelaxRounds(adj, d, n) == IF n = 0 THEN d ELSE RelaxRounds(adj, RelaxAll(adj, d), n - 1)

\* nx.single_source_dijkstra_path_length(graph, source, weight='weight'), line
\* 96: the least path weight of every node source reaches; a node source does
\* not reach has no entry
single_source_dijkstra_path_length(adj, source) ==
    LET d == RelaxRounds(adj, [v \in DOMAIN adj |-> IF v = source THEN 0 ELSE Inf],
                         Cardinality(DOMAIN adj))
    IN  [v \in {x \in DOMAIN adj : d[x] # Inf} |-> d[v]]

\* lines 88-101: all_lengths, the second component of the returned pair
find_all_shortest_paths(adj) ==
    [source \in DOMAIN adj |-> single_source_dijkstra_path_length(adj, source)]

\* line 155: all_lengths[source][target] raises KeyError for a missing entry
create_distance_matrix_raises(adj, all_lengths) ==
    \E source \in DOMAIN adj, t \in DOMAIN adj :
        source # t /\ t \notin DOMAIN all_lengths[source]

\* lines 147-157
create_distance_matrix(adj, all_lengths) ==
    [source \in DOMAIN adj |->
        [t \in DOMAIN adj |-> IF source = t THEN 0 ELSE all_lengths[source][t]]]

\* ------------------------------------------- compare_algorithms (hw-06/task2)
\* len(x) - 1 if x else 0
LengthOrZero(p) == IF p = NoPath THEN 0 ELSE Len(p) - 1

\* lines 160-174
compare_algorithms(adj, s, goal) ==
    LET dfs_result == dfs_path(adj, s, goal)[1]
        dfs_visited == dfs_path(adj, s, goal)[2]
        bfs_result == bfs_path_order(adj, s, goal)[1]
        bfs_visited == bfs_path_order(adj, s, goal)[2]
    IN  [start |-> s,
         goal |-> goal,
         dfs_path |-> dfs_result,
         bfs_path |-> bfs_result,
         dfs_length |-> LengthOrZero(dfs_result),
         bfs_length |-> LengthOrZero(bfs_result),
         dfs_visited |-> Len(dfs_visited),
         bfs_visited |-> Len(bfs_visited)]

\* --------------------------------------------------------- build_sample_graph
\* the vertices "A" .. "J" are 1 .. 10, in the order of the alphabet (tuples of
\* the heap compare the same way)
VertexA == 1
VertexG == 7

\* lines 98-117: the add_edge calls, in order
SampleEdges ==
    << <<1, 2, 10>>, <<2, 3, 15>>,
       <<1, 4, 5>>, <<1, 5, 7>>, <<2, 5, 12>>, <<2, 6, 8>>, <<3, 6, 4>>, <<3, 7, 2>>,
       <<4, 8, 3>>, <<5, 6, 6>>, <<5, 8, 9>>, <<6, 7, 1>>, <<6, 9, 11>>, <<7, 10, 7>>,
       <<8, 9, 9>>, <<9, 10, 5>> >>

RECURSIVE AddEdges(_, _, _)
AddEdges(adj, edges, i) ==
    IF i > Len(edges) THEN adj
    ELSE AddEdges(add_edge(adj, edges[i][1], edges[i][2], edges[i][3], TRUE), edges, i + 1)

\* the graph after the calls add_edge(a, b, w, undirected) of calls[i..]
RECURSIVE AddEdgeCalls(_, _, _)
AddEdgeCalls(adj, edge_calls, i) ==
    IF i > Len(edge_calls) THEN adj
    ELSE AddEdgeCalls(add_edge(adj, edge_calls[i][1], edge_calls[i][2], edge_calls[i][3],
                               edge_calls[i][4]),
                      edge_calls, i + 1)

\* lines 95-119
build_sample_graph == AddEdges(<<>>, SampleEdges, 1)

\* --------------------------------- singly linked list (Final Project Algo/task_1)
\* A list is [head, data, next]: the nodes are numbered in the order they were
\* created, data[n] and next[n] are the fields of node n, None is no node.
EmptyList == [head |-> None, data |-> <<>>, next |-> <<>>]

\* lines 18-20: the node whose next is None, from current on
RECURSIVE LastNode(_, _)
LastNode(l, current) ==
    IF l.next[current] # None THEN LastNode(l, l.next[current]) ELSE current

\* SinglyLinkedList.append(data), lines 12-21
append(l, d) ==
    LET new_node == Len(l.data) + 1
        l1 == [l EXCEPT !.data = Append(@, d), !.next = Append(@, None)]
    IN  IF l.head = None
          THEN [l1 EXCEPT !.head = new_node]
          ELSE [l1 EXCEPT !.next[LastNode(l, l.head)] = new_node]

\* the list lst.append(values[1]); lst.append(values[2]); ... builds
RECURSIVE AppendAll(_, _, _)
AppendAll(l, values, i) ==
    IF i > Len(values) THEN l ELSE AppendAll(append(l, values[i]), values, i + 1)

\* reverse_list, lines 41-48: the while loop
RECURSIVE ReverseLoop(_, _, _)
ReverseLoop(next, previous, current) ==
    IF current = None THEN <<previous, next>>
    ELSE ReverseLoop([next EXCEPT ![current] = previous], current, next[current])

\* reverse_list(head), lines 34-49
reverse_list(l) ==
    LET r == ReverseLoop(l.next, None, l.head)
    IN  [l EXCEPT !.head = r[1], !.next = r[2]]

\* lines 76-78: the node of the sorted list after which current is inserted
RECURSIVE FindPosition(_, _, _, _)
FindPosition(data, next, sorted_current, current) ==
    IF next[sorted_current] # None /\ data[next[sorted_current]] < data[current]
      THEN FindPosition(data, next, next[sorted_current], current)
      ELSE sorted_current

\* lines 65-84: the while loop over the nodes of the original list
RECURSIVE SortLoop(_, _, _, _)
SortLoop(data, next, sorted_head, current) ==
    IF current = None THEN <<sorted_head, next>>
    ELSE LET next_node == next[current]
         IN  IF sorted_head = None \/ data[current] < data[sorted_head]
               THEN SortLoop(data, [next EXCEPT ![current] = sorted_head], current, next_node)
               ELSE LET sorted_current == FindPosition(data, next, sorted_head, current)
                    IN  SortLoop(data,
                                 [next EXCEPT ![current] = next[sorted_current],
                                              ![sorted_current] = current],
                                 sorted_head, next_node)

\* insertion_sort(head), lines 51-86
insertion_sort(l) ==
    IF l.head = None \/ l.next[l.head] = None THEN l
    ELSE LET r == SortLoop(l.data, l.next, None, l.head)
         IN  [l EXCEPT !.head = r[1], !.next = r[2]]

\* ------------------------------------- min_cost_to_connect_cables (hw-08/task_1)
\* a cable length as a heap entry: <<length, 0>> compares as the length does
Cable(c) == <<c, 0>>

\* the list is used as it is, without heapq.heapify
NoHeapify(h) == h

\* heapq.heapify(x): _siftup at n // 2, ..., 1 (1-based)
RECURSIVE heapify_from(_, _)
heapify_from(h, i) == IF i = 0 THEN h ELSE heapify_from(siftup(h, i), i - 1)

heapify(h) == heapify_from(h, Len(h) \div 2)

\* lines 20-30: the while loop
RECURSIVE ConnectLoop(_, _)
ConnectLoop(h, total_cost) ==
    IF Len(h) <= 1 THEN total_cost
    ELSE LET r1 == heappop(h)
             r2 == heappop(r1[2])
             connection_cost == r1[1][1] + r2[1][1]
         IN  ConnectLoop(heappush(r2[2], Cable(connection_cost)), total_cost + connection_cost)

\* lines 3-32
min_cost_to_connect_cables(cables) ==
    IF Len(cables) <= 1 THEN 0
    ELSE ConnectLoop(heapify([i \in DOMAIN cables |-> Cable(cables[i])]), 0)

\* ------------------------------- dynamic_programming (Final Project Algo/task_6)
\* items is the sequence of the values of the dict, in key order: the name of an
\* item is its position, items[i].cost and items[i].calories its properties.
\* A DP table is the sequence of its rows 0..n (row i at position i + 1), a row
\* a function on 0..budget.

\* an item that costs the whole of c cannot be taken
DPRowStrict(item, previous, budget) ==
    [c \in 0..budget |->
        IF item.cost >= c
          THEN previous[c]
          ELSE IF previous[c] >= previous[c - item.cost] + item.calories
                 THEN previous[c]
                 ELSE previous[c - item.cost] + item.calories]

\* lines 124-133: row i of the table from row i - 1
DPRow(item, previous, budget) ==
    [c \in 0..budget |->
        IF item.cost > c
          THEN previous[c]
          ELSE IF previous[c] >= previous[c - item.cost] + item.calories
                 THEN previous[c]
                 ELSE previous[c - item.cost] + item.calories]

\* lines 114-133: the rows 0..n, filled bottom-up from row i on
RECURSIVE FillTable(_, _, _, _)
FillTable(items, budget, DP, i) ==
    IF i > Len(items) THEN DP
    ELSE FillTable(items, budget, Append(DP, DPRow(items[i], DP[i], budget)), i + 1)

\* lines 140-147: the backtracking loop, from item i down to item 1
RECURSIVE Backtrack(_, _, _, _, _)
Backtrack(items, DP, i, c, chosen) ==
    IF i = 0 THEN chosen
    ELSE IF DP[i + 1][c] # DP[i][c]
           THEN Backtrack(items, DP, i - 1, c - items[i].cost, Append(chosen, i))
           ELSE Backtrack(items, DP, i - 1, c, chosen)

\* dynamic_programming(items, budget), lines 82-153: <<chosen, DP[n][budget]>>
dynamic_programming(items, budget) ==
    LET n == Len(items)
        DP == FillTable(items, budget, <<[c \in 0..budget |-> 0]>>, 1)
    IN  <<Reverse(Backtrack(items, DP, n, budget, <<>>)), DP[n + 1][budget]>>

\* --------------------------------- coin change (goit-algo-hw-09/task_1)
\* A dict {denomination: count} is a function on the set of its keys.

\* line 9
COINS == <<50, 25, 10, 5, 2, 1>>

\* d[k] = v
DictSet(d, k, v) == [x \in DOMAIN d \cup {k} |-> IF x = k THEN v ELSE d[x]]

\* d.get(k, 0)
DictGet(d, k) == IF k \in DOMAIN d THEN d[k] ELSE 0

\* a coin is taken only when more than its value remains
GreedyTakeStrict(remaining, coin) ==
    IF remaining > coin THEN remaining \div coin ELSE 0

\* lines 27-28: how many coins of one denomination the greedy algorithm takes
GreedyTake(remaining, coin) ==
    IF remaining >= coin THEN remaining \div coin ELSE 0

\* lines 26-31: the loop over sorted(COINS, reverse=True), from position j on;
\* COINS is in descending order already
RECURSIVE GreedyLoop(_, _, _)
GreedyLoop(result, remaining, j) ==
    IF j > Len(COINS) THEN result
    ELSE LET coin == COINS[j]
             count == GreedyTake(remaining, coin)
         IN  IF count > 0
               THEN GreedyLoop(DictSet(result, coin, count), remaining - count * coin, j + 1)
               ELSE GreedyLoop(result, remaining, j + 1)

\* find_coins_greedy(amount), lines 11-33
find_coins_greedy(amount) == GreedyLoop(<<>>, amount, 1)

\* lines 58-64: the loop over COINS for the amount i, from position j on;
\* st is [dp, coin_used]
RECURSIVE CoinLoop(_, _, _)
CoinLoop(st, i, j) ==
    IF j > Len(COINS) THEN st
    ELSE LET coin == COINS[j]
         IN  IF i >= coin /\ st.dp[i - coin] + 1 < st.dp[i]
               THEN CoinLoop([dp |-> [st.dp EXCEPT ![i] = st.dp[i - coin] + 1],
                              coin_used |-> [st.coin_used EXCEPT ![i] =
                                  DictSet(st.coin_used[i - coin], coin,
                                          DictGet(st.coin_used[i - coin], coin) + 1)]],
                             i, j + 1)
               ELSE CoinLoop(st, i, j + 1)

\* lines 57-64: the loop over the amounts from i on, range(1, amount + 1)
\* being the indices of dp but 0
RECURSIVE AmountLoop(_, _)
AmountLoop(st, i) ==
    IF i \notin DOMAIN st.dp THEN st ELSE AmountLoop(CoinLoop(st, i, 1), i + 1)

\* find_min_coins(amount), lines 35-66
find_min_coins(amount) ==
    IF amount = 0 THEN <<>>
    ELSE AmountLoop([dp |-> [i \in 0..amount |-> IF i = 0 THEN 0 ELSE Inf],
                     coin_used |-> [i \in 0..amount |-> <<>>]],
                    1).coin_used[amount]

\* ------------------------------------------------------------------ actions
\* g = Graph(): no call of the graph engine has been made
EngineInit ==
    /\ adjacency_list = <<>>
    /\ calls = 0
    /\ all_undirected = TRUE
    /\ mentioned = {}
    /\ pc = "idle"
    /\ start = None
    /\ dist = <<>>
    /\ prev = <<>>
    /\ heap = <<>>
    /\ current_dist = 0
    /\ u = None
    /\ edge_idx = 0
    /\ run = 0
    /\ first = <<>>
    /\ target = None
    /\ path = NoPath
    /\ visited_order = <<>>
    /\ cmp = <<>>
    /\ error = ""
    /\ taken = <<>>
    /\ distance_matrix = <<>>

Init ==
    /\ EngineInit
    /\ args = <<>>
    /\ returned = <<>>

\* lst = SinglyLinkedList(); lst.append(..) for up to MaxNodes values
InitList ==
    /\ EngineInit
    /\ args \in {AppendAll(EmptyList, values, 1) :
                    values \in UNION {[1..n -> Data] : n \in 0..MaxNodes}}
    /\ returned = <<>>

\* cables: a list of up to MaxCables positive lengths
InitCables ==
    /\ EngineInit
    /\ args \in UNION {[1..n -> Lengths] : n \in 0..MaxCables}
    /\ returned = <<>>

\* min_cost_to_connect_cables(cables.copy())
MinCostToConnectCables ==
    /\ pc = "idle"
    /\ returned' = min_cost_to_connect_cables(args)
    /\ pc' = "cables_returned"
    /\ UNCHANGED <<engineVars, args>>

\* items: up to MaxItems items; budget: up to MaxBudget
InitKnapsack ==
    /\ EngineInit
    /\ args \in [items : UNION {[1..n -> [cost : Costs, calories : Calories]] : n \in 0..MaxItems},
                  budget : 0..MaxBudget]
    /\ returned = <<>>

\* dynamic_programming(items, budget)
DynamicProgramming ==
    /\ pc = "idle"
    /\ returned' = dynamic_programming(args.items, args.budget)
    /\ pc' = "dp_returned"
    /\ UNCHANGED <<engineVars, args>>

\* amount: every amount up to MaxAmount
InitCoins ==
    /\ EngineInit
    /\ args \in 0..MaxAmount
    /\ returned = <<>>

\* find_coins_greedy(amount)
FindCoinsGreedy ==
    /\ pc = "idle"
    /\ returned' = <<find_coins_greedy(args)>>
    /\ pc' = "greedy_returned"
    /\ UNCHANGED <<engineVars, args>>

\* find_min_coins(amount), called after find_coins_greedy(amount)
FindMinCoins ==
    /\ pc = "greedy_returned"
    /\ returned' = Append(returned, find_min_coins(args))
    /\ pc' = "coins_returned"
    /\ UNCHANGED <<engineVars, args>>

\* a graph built by up to MaxBuilt add_edge calls whose argument undirected
\* is drawn from flags, before any search
BuiltWith(flags) ==
    /\ \E edge_calls \in UNION {[1..n -> Vertices \X Vertices \X Weights \X flags] :
                                  n \in 1..MaxBuilt} :
          /\ adjacency_list = AddEdgeCalls(<<>>, edge_calls, 1)
          /\ calls = Len(edge_calls)
          /\ all_undirected = \A i \in DOMAIN edge_calls : edge_calls[i][4]
          /\ mentioned = UNION {{edge_calls[i][1], edge_calls[i][2]} : i \in DOMAIN edge_calls}
    /\ pc = "idle"
    /\ start = None
    /\ dist = <<>>
    /\ prev = <<>>
    /\ heap = <<>>
    /\ current_dist = 0
    /\ u = None
    /\ edge_idx = 0
    /\ run = 0
    /\ first = <<>>
    /\ target = None
    /\ path = NoPath
    /\ visited_order = <<>>
    /\ cmp = <<>>
    /\ error = ""
    /\ taken = <<>>
    /\ distance_matrix = <<>>
    /\ args = <<>>
    /\ returned = <<>>

\* directed and undirected edges
InitBuilt == BuiltWith(BOOLEAN)

\* undirected edges only, the default of add_edge
InitUndirected == BuiltWith({TRUE})

\* bfs_path(graph, s, goal) up to the loop head (lines 121-125); args holds
\* the locals of the running search
BfsBegin ==
    /\ pc = "idle"
    /\ \E s \in vertices(adjacency_list), goal \in vertices(adjacency_list) :
          /\ start' = s
          /\ target' = goal
          /\ args' = BfsStart(s)
    /\ pc' = "bfs_while"
    /\ UNCHANGED <<graphVars, dist, prev, heap, current_dist, u, edge_idx, run, first,
                   path, visited_order, cmp, error, taken, distance_matrix, returned>>

\* one iteration of the while loop of bfs_path (lines 126-141); it returns the
\* path when the goal was dequeued
BfsStep ==
    /\ pc = "bfs_while"
    /\ args.queue # <<>>
    /\ args' = BfsIter(adjacency_list, target, args)
    /\ IF args'.done
         THEN /\ pc' = "bfs_returned"
              /\ path' = args'.result
              /\ visited_order' = args'.visited_order
              /\ taken' = args'.dequeued
         ELSE /\ pc' = "bfs_while"
              /\ UNCHANGED <<path, visited_order, taken>>
    /\ UNCHANGED <<graphVars, dijkstraVars, run, first, target, cmp, error,
                   distance_matrix, returned>>

\* the queue is empty (lines 125, 143): bfs_path returns None
BfsExhausted ==
    /\ pc = "bfs_while"
    /\ args.queue = <<>>
    /\ pc' = "bfs_returned"
    /\ path' = NoPath
    /\ visited_order' = args.visited_order
    /\ taken' = args.dequeued
    /\ UNCHANGED <<graphVars, dijkstraVars, run, first, target, cmp, error,
                   distance_matrix, args, returned>>

\* dfs_path(graph, s, goal) up to the loop head (lines 81-85)
DfsBegin ==
    /\ pc = "idle"
    /\ \E s \in vertices(adjacency_list), goal \in vertices(adjacency_list) :
          /\ start' = s
          /\ target' = goal
          /\ args' = DfsStart(s)
    /\ pc' = "dfs_while"
    /\ UNCHANGED <<graphVars, dist, prev, heap, current_dist, u, edge_idx, run, first,
                   path, visited_order, cmp, error, taken, distance_matrix, returned>>

\* one iteration of the while loop of dfs_path (lines 86-103); it returns the
\* path when the goal was popped
DfsStep ==
    /\ pc = "dfs_while"
    /\ args.stack # <<>>
    /\ args' = DfsIter(adjacency_list, target, args)
    /\ IF args'.done
         THEN /\ pc' = "dfs_returned"
              /\ path' = args'.result
              /\ visited_order' = args'.visited_order
              /\ taken' = args'.popped
         ELSE /\ pc' = "dfs_while"
              /\ UNCHANGED <<path, visited_order, taken>>
    /\ UNCHANGED <<graphVars, dijkstraVars, run, first, target, cmp, error,
                   distance_matrix, returned>>

\* the stack is empty (lines 85, 105): dfs_path returns None
DfsExhausted ==
    /\ pc = "dfs_while"
    /\ args.stack = <<>>
    /\ pc' = "dfs_returned"
    /\ path' = NoPath
    /\ visited_order' = args.visited_order
    /\ taken' = args.popped
    /\ UNCHANGED <<graphVars, dijkstraVars, run, first, target, cmp, error,
                   distance_matrix, args, returned>>

\* reverse_list(lst.head), as test_fixed does before it sorts
ReverseList ==
    /\ pc = "idle"
    /\ args' = reverse_list(args)
    /\ pc' = "reversed"
    /\ UNCHANGED <<engineVars, returned>>

\* insertion_sort(head)
InsertionSort ==
    /\ pc \in {"idle", "reversed"}
    /\ returned' = insertion_sort(args)
    /\ pc' = "sorted"
    /\ UNCHANGED <<engineVars, args>>

\* g = build_sample_graph(): the state main() starts its queries from
InitSample ==
    /\ adjacency_list = build_sample_graph
    /\ calls = Len(SampleEdges)
    /\ all_undirected = TRUE
    /\ mentioned = DOMAIN build_sample_graph
    /\ pc = "idle"
    /\ start = None
    /\ dist = <<>>
    /\ prev = <<>>
    /\ heap = <<>>
    /\ current_dist = 0
    /\ u = None
    /\ edge_idx = 0
    /\ run = 0
    /\ first = <<>>
    /\ target = None
    /\ path = NoPath
    /\ visited_order = <<>>
    /\ cmp = <<>>
    /\ error = ""
    /\ taken = <<>>
    /\ distance_matrix = <<>>
    /\ args = <<>>
    /\ returned = <<>>

\* g.add_edge(a, b, w, undirected) for some a, b and undirected
AddEdgeWeighing(w) ==
    /\ pc = "idle"
    /\ \E a \in Vertices, b \in Vertices, undirected \in BOOLEAN :
          /\ adjacency_list' = add_edge(adjacency_list, a, b, w, undirected)
          /\ all_undirected' = (all_undirected /\ undirected)
          /\ mentioned' = mentioned \cup {a, b}
    /\ calls' = calls + 1
    /\ UNCHANGED <<pc, dijkstraVars, run, first, resultVars, error, taken, distance_matrix, args, returned>>

\* g.add_edge(a, b, w, undirected) with a weight >= 0
AddEdge ==
    /\ calls < MaxEdges
    /\ \E w \in Weights : AddEdgeWeighing(w)

\* g.add_edge(a, b, w, undirected) with a weight < 0: add_edge has no check
AddEdgeNegative ==
    /\ calls < MaxEdges
    /\ \E w \in NegativeWeights : AddEdgeWeighing(w)

\* G.add_node(v) of the networkx graphs of hw-06: v becomes a vertex, with no
\* edge yet
AddNode ==
    /\ pc = "idle"
    /\ calls < MaxEdges
    /\ \E v \in Vertices : adjacency_list' = SetDefault(adjacency_list, v)
    /\ calls' = calls + 1
    /\ UNCHANGED <<all_undirected, mentioned, pc, dijkstraVars, run, first, resultVars, error, taken, distance_matrix, args, returned>>

\* create_distance_matrix(G, all_lengths) on the all_lengths of
\* find_all_shortest_paths(G); G is an undirected networkx graph
DistanceMatrix ==
    /\ pc = "idle"
    /\ all_undirected
    /\ LET all_lengths == find_all_shortest_paths(adjacency_list)
       IN  IF create_distance_matrix_raises(adjacency_list, all_lengths)
             THEN /\ pc' = "matrix_raised"
                  /\ error' = "KeyError"
                  /\ UNCHANGED distance_matrix
             ELSE /\ pc' = "matrix_returned"
                  /\ distance_matrix' = create_distance_matrix(adjacency_list, all_lengths)
                  /\ error' = error
    /\ UNCHANGED <<graphVars, dijkstraVars, run, first, resultVars, taken, args, returned>>

\* dijkstra_heap(graph, s): lines 39-45, up to the loop head
DijkstraStart(s) ==
    /\ pc = "idle"
    /\ start' = s
    /\ dist' = InitialDist(adjacency_list, s)
    /\ prev' = InitialPrev(adjacency_list)
    /\ heap' = <<<<0, s>>>>
    /\ pc' = "while"
    /\ run' = 1
    /\ UNCHANGED <<graphVars, current_dist, u, edge_idx, first, resultVars, error, taken, distance_matrix, args, returned>>

\* dijkstra_heap(graph, s) from a vertex of the graph
DijkstraCall == \E s \in vertices(adjacency_list) : DijkstraStart(s)

\* dijkstra_heap(graph, s) from a source that is not a vertex of the graph
DijkstraCallUnknown == \E s \in Vertices \ vertices(adjacency_list) : DijkstraStart(s)

\* one heappop at the loop head (lines 48-53), taken left aside: a stale entry is skipped
\* (continue), any other entry starts the for loop over adjacency_list[u];
\* graph.adjacency_list[u] (line 56) raises KeyError for a u that is no key
DijkstraPopStep ==
    /\ pc = "while"
    /\ heap # <<>>
    /\ LET r == heappop(heap)
           d == r[1][1]
           n == r[1][2]
       IN  /\ heap' = r[2]
           /\ current_dist' = d
           /\ u' = n
           /\ IF IsStale(d, dist[n])
                THEN pc' = "while" /\ edge_idx' = 0 /\ error' = error
                ELSE IF n \notin DOMAIN adjacency_list
                       THEN pc' = "dijkstra_raised" /\ edge_idx' = 0 /\ error' = "KeyError"
                       ELSE IF adjacency_list[n] = <<>>
                              THEN pc' = "while" /\ edge_idx' = 0 /\ error' = error
                              ELSE pc' = "for" /\ edge_idx' = 1 /\ error' = error
    /\ UNCHANGED <<graphVars, start, dist, prev, run, first, resultVars, distance_matrix, args, returned>>

\* the loop head of dijkstra_heap
DijkstraPop ==
    /\ DijkstraPopStep
    /\ UNCHANGED taken

\* the loop head of dijkstra_heap, taken recording the vertices whose entry was
\* not skipped, in the order they were popped
DijkstraPopRecording ==
    /\ DijkstraPopStep
    /\ taken' = IF IsStale(current_dist', dist[u']) THEN taken ELSE Append(taken, u')

\* one iteration of the for loop (lines 56-62): relax the edge u -> v. A run
\* whose distances fall below -MaxDescent (around a cycle of negative weight
\* they fall forever) is followed no further.
DijkstraRelax ==
    /\ pc = "for"
    /\ current_dist >= 0 - MaxDescent
    /\ LET e == adjacency_list[u][edge_idx]
           v == e[1]
           distance_through_u == DistanceThrough(current_dist, e[2])
       IN  IF FloatLess(distance_through_u, dist[v])
             THEN /\ dist' = [dist EXCEPT ![v] = distance_through_u]
                  /\ prev' = [prev EXCEPT ![v] = u]
                  /\ heap' = heappush(heap, <<distance_through_u, v>>)
             ELSE UNCHANGED <<dist, prev, heap>>
    /\ IF edge_idx < Len(adjacency_list[u])
         THEN edge_idx' = edge_idx + 1 /\ pc' = "for"
         ELSE edge_idx' = 0 /\ pc' = "while"
    /\ UNCHANGED <<graphVars, start, current_dist, u, run, first, resultVars, error, taken, distance_matrix, args, returned>>

\* the heap is empty (lines 48, 64): return dist, prev
DijkstraReturn ==
    /\ pc = "while"
    /\ heap = <<>>
    /\ pc' = "returned"
    /\ UNCHANGED <<graphVars, dijkstraVars, run, first, resultVars, error, taken, distance_matrix, args, returned>>

\* the caller runs dijkstra_heap(graph, start) a second time on the same graph
DijkstraCallAgain ==
    /\ pc = "returned"
    /\ run = 1
    /\ first' = <<dist, prev>>
    /\ dist' = InitialDist(adjacency_list, start)
    /\ prev' = InitialPrev(adjacency_list)
    /\ heap' = <<<<0, start>>>>
    /\ pc' = "while"
    /\ run' = 2
    /\ UNCHANGED <<graphVars, start, current_dist, u, edge_idx, resultVars, error, taken, distance_matrix, args, returned>>

\* reconstruct_path(prev, start, t) on the maps dijkstra_heap returned
ReconstructPath ==
    /\ pc \in {"returned", "reconstructed"}
    /\ \E t \in DOMAIN prev :
          /\ target' = t
          /\ path' = reconstruct_path(prev, start, t)
    /\ pc' = "reconstructed"
    /\ UNCHANGED <<graphVars, dijkstraVars, run, first, visited_order, cmp, error, taken, distance_matrix, args, returned>>

\* reconstruct_path(prev, start, t) for a t that is no key of prev: prev[target]
\* (line 68) raises KeyError
ReconstructPathUnknown ==
    /\ pc \in {"returned", "reconstructed"}
    /\ \E t \in Vertices \ DOMAIN prev : target' = t
    /\ error' = "KeyError"
    /\ pc' = "reconstruct_raised"
    /\ UNCHANGED <<graphVars, dijkstraVars, run, first, path, visited_order, cmp, taken, distance_matrix, args, returned>>

\* compare_dijkstra_bfs(graph, start, t, all_paths, all_lengths) for a target
\* that has an entry in all_lengths[start] (a reachable one)
CompareDijkstraBfs ==
    /\ pc = "returned"
    /\ \E t \in DOMAIN dist :
          /\ dist[t] # Inf
          /\ target' = t
          /\ cmp' = compare_dijkstra_bfs(adjacency_list, start, t, dist, prev)
    /\ pc' = "compared"
    /\ UNCHANGED <<graphVars, dijkstraVars, run, first, path, visited_order, error, taken, distance_matrix, args, returned>>

\* compare_dijkstra_bfs(graph, start, t, all_paths, all_lengths) for a target
\* that start does not reach: all_paths[source] holds the reachable targets
\* only, all_paths[source][target] (line 275) raises KeyError
CompareDijkstraBfsNoPath ==
    /\ pc = "returned"
    /\ \E t \in DOMAIN dist :
          /\ dist[t] = Inf
          /\ target' = t
    /\ error' = "KeyError"
    /\ pc' = "compare_raised"
    /\ UNCHANGED <<graphVars, dijkstraVars, run, first, path, visited_order, cmp, taken, distance_matrix, args, returned>>

\* compare_algorithms(graph, s, goal) between two vertices of the graph
CompareAlgorithms ==
    /\ pc = "idle"
    /\ \E s \in vertices(adjacency_list), goal \in vertices(adjacency_list) :
          /\ start' = s
          /\ target' = goal
          /\ cmp' = compare_algorithms(adjacency_list, s, goal)
    /\ pc' = "algorithms_compared"
    /\ UNCHANGED <<graphVars, dist, prev, heap, current_dist, u, edge_idx, run, first, path, visited_order, error, taken, distance_matrix, args, returned>>

\* bfs_path(graph, s, goal) of task2: the call returns <<path, visited_order>>
\* or raises
BfsCall(s, goal) ==
    /\ pc = "idle"
    /\ start' = s
    /\ target' = goal
    /\ LET st == BfsLoop(adjacency_list, goal, BfsStart(s))
           r == bfs_path_order(adjacency_list, s, goal)
       IN  /\ taken' = st.dequeued
           /\ IF st.raised
                THEN /\ pc' = "bfs_raised"
                     /\ error' = "NetworkXError"
                     /\ UNCHANGED <<path, visited_order>>
                ELSE /\ pc' = "bfs_returned"
                     /\ path' = r[1]
                     /\ visited_order' = r[2]
                     /\ error' = error
    /\ UNCHANGED <<graphVars, dist, prev, heap, current_dist, u, edge_idx, run, first, cmp, distance_matrix, args, returned>>

\* bfs_path between two vertices of the graph
BfsPath ==
    \E s \in vertices(adjacency_list), goal \in vertices(adjacency_list) : BfsCall(s, goal)

\* bfs_path with a start or a goal that is not a vertex of the graph
BfsPathUnknown ==
    \E s \in Vertices, goal \in Vertices :
        /\ {s, goal} \ vertices(adjacency_list) # {}
        /\ BfsCall(s, goal)

\* dfs_path sorting each adjacency list in place
DfsPathSortingInPlace ==
    /\ pc = "idle"
    /\ \E s \in vertices(adjacency_list), goal \in vertices(adjacency_list) :
          LET r == dfs_path(adjacency_list, s, goal)
          IN  /\ start' = s
              /\ target' = goal
              /\ path' = r[1]
              /\ visited_order' = r[2]
    /\ pc' = "dfs_returned"
    /\ adjacency_list' = [v \in DOMAIN adjacency_list |->
           [i \in 1..Len(adjacency_list[v]) |->
               adjacency_list[v][Len(adjacency_list[v]) + 1 - i]]]
    /\ taken' = DfsLoop(adjacency_list, target', DfsStart(start')).popped
    /\ UNCHANGED <<calls, all_undirected, mentioned, dist, prev, heap, current_dist, u, edge_idx, run, first, cmp, error, distance_matrix, args, returned>>

\* dfs_path(graph, s, goal): the call returns <<path, visited_order>> or raises
DfsCall(s, goal) ==
    /\ pc = "idle"
    /\ start' = s
    /\ target' = goal
    /\ LET st == DfsLoop(adjacency_list, goal, DfsStart(s))
           r == dfs_path(adjacency_list, s, goal)
       IN  /\ taken' = st.popped
           /\ IF st.raised
                THEN /\ pc' = "dfs_raised"
                     /\ error' = "NetworkXError"
                     /\ UNCHANGED <<path, visited_order>>
                ELSE /\ pc' = "dfs_returned"
                     /\ path' = r[1]
                     /\ visited_order' = r[2]
                     /\ error' = error
    /\ UNCHANGED <<graphVars, dist, prev, heap, current_dist, u, edge_idx, run, first, cmp, distance_matrix, args, returned>>

\* dfs_path between two vertices of the graph
DfsPath ==
    \E s \in vertices(adjacency_list), goal \in vertices(adjacency_list) : DfsCall(s, goal)

\* dfs_path with a start or a goal that is not a vertex of the graph
DfsPathUnknown ==
    \E s \in Vertices, goal \in Vertices :
        /\ {s, goal} \ vertices(adjacency_list) # {}
        /\ DfsCall(s, goal)

Next ==
    \/ AddEdge
    \/ DijkstraCall
    \/ DijkstraPop
    \/ DijkstraRelax
    \/ DijkstraReturn
    \/ ReconstructPath
    \/ CompareDijkstraBfs

\* the graph, dijkstra_heap and the reports built on its result
Spec == Init /\ [][Next]_vars

\* the graph and the two searches
NextSearch ==
    \/ AddEdge
    \/ BfsPath
    \/ DfsPath

SpecSearch == Init /\ [][NextSearch]_vars

\* every operation of the engine
NextAll ==
    \/ AddEdge
    \/ DijkstraCall
    \/ DijkstraPop
    \/ DijkstraRelax
    \/ DijkstraReturn
    \/ ReconstructPath
    \/ CompareDijkstraBfs
    \/ BfsPath
    \/ DfsPath

SpecAll == Init /\ [][NextAll]_vars

\* a caller that repeats the dijkstra_heap call on the unchanged graph
NextRerun ==
    \/ AddEdge
    \/ DijkstraCall
    \/ DijkstraPop
    \/ DijkstraRelax
    \/ DijkstraReturn
    \/ DijkstraCallAgain

SpecRerun == Init /\ [][NextRerun]_vars

\* the calls that name a vertex the graph does not have, or a target the
\* source does not reach
NextErrors ==
    \/ AddEdge
    \/ DijkstraCall
    \/ DijkstraCallUnknown
    \/ DijkstraPop
    \/ DijkstraRelax
    \/ DijkstraReturn
    \/ ReconstructPath
    \/ ReconstructPathUnknown
    \/ CompareDijkstraBfsNoPath
    \/ CompareAlgorithms
    \/ BfsPath
    \/ BfsPathUnknown
    \/ DfsPath
    \/ DfsPathUnknown

SpecErrors == Init /\ [][NextErrors]_vars

\* the networkx graph of hw-06/task3 and its distance matrix
NextMatrix ==
    \/ AddEdge
    \/ AddNode
    \/ DistanceMatrix

SpecMatrix == Init /\ [][NextMatrix]_vars

\* dijkstra_heap on graphs that have edges of negative weight
NextNegative ==
    \/ AddEdge
    \/ AddEdgeNegative
    \/ DijkstraCall
    \/ DijkstraPop
    \/ DijkstraRelax
    \/ DijkstraReturn

SpecNegative == Init /\ [][NextNegative]_vars

\* the two searches on graphs that may have vertices without edges
NextIsolated ==
    \/ AddEdge
    \/ AddNode
    \/ BfsPath
    \/ DfsPath

SpecIsolated == Init /\ [][NextIsolated]_vars

\* dijkstra_heap and reconstruct_path on the sample graph
NextSample ==
    \/ DijkstraCall
    \/ DijkstraPop
    \/ DijkstraRelax
    \/ DijkstraReturn
    \/ ReconstructPath

SpecSample == InitSample /\ [][NextSample]_vars

\* the linked list operations of test_fixed
NextList ==
    \/ ReverseList
    \/ InsertionSort

SpecList == InitList /\ [][NextList]_vars

\* the cable connection cost of every list
NextCables == MinCostToConnectCables

SpecCables == InitCables /\ [][NextCables]_vars

\* the food selection for every set of items and every budget
NextKnapsack == DynamicProgramming

SpecKnapsack == InitKnapsack /\ [][NextKnapsack]_vars

\* both change algorithms on every amount
NextCoins == FindCoinsGreedy \/ FindMinCoins

SpecCoins == InitCoins /\ [][NextCoins]_vars

\* the three algorithms followed one loop iteration at a time
NextSteps ==
    \/ DijkstraCall
    \/ DijkstraPop
    \/ DijkstraRelax
    \/ DijkstraReturn
    \/ BfsBegin
    \/ BfsStep
    \/ BfsExhausted
    \/ DfsBegin
    \/ DfsStep
    \/ DfsExhausted

SpecSteps == InitBuilt /\ [][NextSteps]_vars

\* dijkstra_heap with the record of the vertices it has processed
NextSettled ==
    \/ DijkstraCall
    \/ DijkstraPopRecording
    \/ DijkstraRelax
    \/ DijkstraReturn

SpecSettled == InitBuilt /\ [][NextSettled]_vars

\* dijkstra_heap and reconstruct_path on every built graph
NextPaths ==
    \/ DijkstraCall
    \/ DijkstraPop
    \/ DijkstraRelax
    \/ DijkstraReturn
    \/ ReconstructPath

SpecPaths == InitBuilt /\ [][NextPaths]_vars

\* the steps inside a call: the next loop iteration or the return
StepInCall ==
    \/ DijkstraPop
    \/ DijkstraRelax
    \/ DijkstraReturn
    \/ BfsStep
    \/ BfsExhausted
    \/ DfsStep
    \/ DfsExhausted

\* a call that has begun keeps running (the program is one thread that does
\* nothing else): a step inside the call that can be taken is taken in the end
SpecFair == InitUndirected /\ [][NextSteps]_vars /\ WF_vars(StepInCall)

\* ------------------------------------------------------------- reference
\* What the properties below compare the code against, defined on the graph
\* alone: arcs, simple paths, their weights and hop counts.
Nodes == DOMAIN adjacency_list

Arc(a, b) == \E i \in DOMAIN adjacency_list[a] : adjacency_list[a][i][1] = b

ArcWeights(a, b) ==
    {adjacency_list[a][i][2] : i \in {j \in DOMAIN adjacency_list[a] : adjacency_list[a][j][1] = b}}

Minimum(S) == CHOOSE x \in S : \A y \in S : x <= y

\* the simple paths from s to t (a path of least weight or of fewest hops is
\* always among them, the weights being non-negative)
SimplePaths(s, t) ==
    {p \in UNION {[1..n -> Nodes] : n \in 1..Cardinality(Nodes)} :
        /\ p[1] = s
        /\ p[Len(p)] = t
        /\ \A i, j \in 1..Len(p) : i # j => p[i] # p[j]
        /\ \A i \in 1..(Len(p) - 1) : Arc(p[i], p[i + 1])}

Reachable(s, t) == SimplePaths(s, t) # {}

RECURSIVE LeastCost(_, _)
LeastCost(p, i) ==
    IF i >= Len(p) THEN 0 ELSE Minimum(ArcWeights(p[i], p[i + 1])) + LeastCost(p, i + 1)

MinPathWeight(s, t) == Minimum({LeastCost(p, 1) : p \in SimplePaths(s, t)})

\* the weight an undirected networkx graph keeps for a - b: the last one given
LastArcWeight(a, b) ==
    LET at == {j \in DOMAIN adjacency_list[a] : adjacency_list[a][j][1] = b}
    IN  adjacency_list[a][CHOOSE j \in at : \A k \in at : k <= j][2]

RECURSIVE LastCost(_, _)
LastCost(p, i) ==
    IF i >= Len(p) THEN 0 ELSE LastArcWeight(p[i], p[i + 1]) + LastCost(p, i + 1)

MinLastWeight(s, t) == Minimum({LastCost(p, 1) : p \in SimplePaths(s, t)})

MinHops(s, t) == Minimum({Len(p) - 1 : p \in SimplePaths(s, t)})

IsWalk(p, s, t) ==
    /\ p # <<>>
    /\ p[1] = s
    /\ p[Len(p)] = t
    /\ \A i \in 1..(Len(p) - 1) : Arc(p[i], p[i + 1])

Occurrences(seq, e) == Cardinality({i \in DOMAIN seq : seq[i] = e})

LexLeq(x, y) == x[1] < y[1] \/ (x[1] = y[1] /\ x[2] <= y[2])

\* ------------------------------------------------------------------ claims
\* C1: when dijkstra_heap returns, dist[source] = 0 and dist[v] is the minimum
\* total weight over all paths from the source to v, for every reachable v.
C1_DijkstraDistancesMinimal ==
    pc = "returned" =>
        /\ dist[start] = 0
        /\ \A v \in Nodes : Reachable(start, v) => dist[v] = MinPathWeight(start, v)

\* a two-edge route beats the direct edge
C1_Witness ==
    /\ pc = "returned"
    /\ \E v \in Nodes : v # start /\ Arc(start, v)
                        /\ dist[v] < Minimum(ArcWeights(start, v))

\* C2: the Dijkstra distance from s to t is at most the weight of the BFS
\* path; time_saved of compare_dijkstra_bfs is never negative.
C2_DijkstraAtMostBfsTime ==
    pc = "compared" =>
        /\ cmp.time_saved >= 0
        /\ dist[target] <= cmp.bfs_time
        /\ IsWalk(cmp.bfs_path, start, target)

\* the hop-minimal path is strictly heavier than the shortest one
C2_Witness == pc = "compared" /\ cmp.time_saved > 0 /\ cmp.bfs_hops < cmp.dijkstra_hops

AllWeightsOne ==
    \A a \in Nodes : \A i \in DOMAIN adjacency_list[a] : adjacency_list[a][i][2] = 1

\* C3: when every edge has weight 1, the Dijkstra distance to each reachable
\* vertex t is the number of edges of the path bfs_path(s, t) returns.
C3_UnitWeightsDistanceIsBfsHops ==
    (pc = "returned" /\ AllWeightsOne) =>
        \A t \in Nodes : Reachable(start, t) =>
            LET p == bfs_path_order(adjacency_list, start, t)[1]
            IN  p # NoPath /\ dist[t] = Len(p) - 1

C3_Witness ==
    /\ pc = "returned"
    /\ AllWeightsOne
    /\ \E t \in Nodes : dist[t] = 2 /\ Len(bfs_path_order(adjacency_list, start, t)[1]) = 3

NoDuplicates(seq) == \A i, j \in DOMAIN seq : i # j => seq[i] # seq[j]

\* C4: for a goal reachable from start, bfs_path returns a path from start to
\* goal with the minimum number of hops, and no vertex is enqueued twice.
C4_BfsPathHopMinimal ==
    pc = "bfs_returned" =>
        /\ NoDuplicates(visited_order)
        /\ Reachable(start, target) =>
              /\ IsWalk(path, start, target)
              /\ Len(path) - 1 = MinHops(start, target)
              /\ bfs_path(adjacency_list, start, target) = path

\* the goal is one hop away and also at the end of a two-hop path
C4_Witness ==
    /\ pc = "bfs_returned"
    /\ Len(path) = 2
    /\ \E p \in SimplePaths(start, target) : Len(p) = 3

\* C5: a path returned by reconstruct_path starts at the source, ends at the
\* target, and each consecutive pair of it is an edge of the graph.
C5_ReconstructedPathIsWalk ==
    (pc = "reconstructed" /\ path # NoPath) => IsWalk(path, start, target)

C5_Witness == pc = "reconstructed" /\ Len(path) = 3

\* C6: for a target unreachable from the source dist[target] is +infinity and
\* reconstruct_path returns None; it returns None only for such targets, and
\* [source] for the source itself.
C6_UnreachableIsNoneAndInf ==
    pc = "reconstructed" =>
        /\ ~Reachable(start, target) => (dist[target] = Inf /\ path = NoPath)
        /\ path = NoPath => (~Reachable(start, target) /\ target # start)
        /\ target = start => path = <<start>>

\* the target has an edge to the source but cannot be reached from it
C6_Witness ==
    /\ pc = "reconstructed"
    /\ path = NoPath
    /\ Arc(target, start)

\* C7: every heappop of dijkstra_heap takes the least (distance, vertex) tuple
\* of the heap, equal distances in ascending vertex order, and a second run
\* from the same source on the same graph returns the same dist and prev.
C7_DijkstraDeterministic ==
    [][/\ (pc = "while" /\ heap # <<>>) =>
             /\ \A i \in DOMAIN heap : LexLeq(<<current_dist', u'>>, heap[i])
             /\ \E i \in DOMAIN heap : heap[i] = <<current_dist', u'>>
             /\ Len(heap') = Len(heap) - 1
       /\ (pc' = "returned" /\ run' = 2) => <<dist', prev'>> = first'
      ]_vars

\* the second run has returned after popping between two entries of equal
\* distance
C7_Witness ==
    /\ run = 2
    /\ pc = "returned"
    /\ \E a, b \in Nodes : a # b /\ a # start /\ b # start /\ dist[a] = dist[b]
                           /\ prev[a] = start /\ prev[b] = start

\* C8: no step of dijkstra_heap, reconstruct_path, compare_dijkstra_bfs,
\* bfs_path or dfs_path changes the adjacency list; only add_edge does.
C8_SearchesLeaveGraphUnchanged ==
    [][(pc # "idle" \/ pc' # "idle") => adjacency_list' = adjacency_list]_vars

\* a search has returned without a path on a graph with edges
C8_Witness ==
    /\ pc = "dfs_returned"
    /\ path = NoPath
    /\ \E a \in Nodes : Len(adjacency_list[a]) >= 2

\* C9: after add_edge calls that all had undirected=True, each entry (v, w) of
\* adjacency_list[u] has its entry (u, w) in adjacency_list[v], as many times.
C9_UndirectedSymmetric ==
    all_undirected =>
        \A a \in Nodes : \A i \in DOMAIN adjacency_list[a] :
            LET e == adjacency_list[a][i]
            IN  /\ e[1] \in Nodes
                /\ Occurrences(adjacency_list[a], e)
                     = Occurrences(adjacency_list[e[1]], <<a, e[2]>>)

\* the same undirected edge added twice, and a third one
C9_Witness ==
    /\ all_undirected
    /\ calls = MaxEdges
    /\ \E a \in Nodes : \E i \in DOMAIN adjacency_list[a] :
          /\ adjacency_list[a][i][1] # a
          /\ Occurrences(adjacency_list[a], adjacency_list[a][i]) = 2

\* C10: every vertex passed to add_edge or named in an adjacency list is a key
\* of adjacency_list and in vertices(), so dijkstra_heap has a dist entry and
\* an edge list for every vertex it meets.
C10_EveryVertexIsKey ==
    /\ mentioned \subseteq vertices(adjacency_list)
    /\ \A a \in Nodes : \A i \in DOMAIN adjacency_list[a] : adjacency_list[a][i][1] \in Nodes
    /\ pc \in {"while", "for", "returned"} =>
          /\ DOMAIN dist = Nodes
          /\ DOMAIN prev = Nodes
          /\ \A i \in DOMAIN heap : heap[i][2] \in Nodes
    /\ pc = "for" => (u \in Nodes /\ adjacency_list[u][edge_idx][1] \in DOMAIN dist)

\* dijkstra_heap relaxes a directed edge into a vertex without outgoing edges
C10_Witness ==
    /\ pc = "for"
    /\ adjacency_list[adjacency_list[u][edge_idx][1]] = <<>>
    /\ ~all_undirected
\* C11: every operation that names a vertex the graph does not have aborts with
\* an error: no call of dijkstra_heap, reconstruct_path, bfs_path or dfs_path
\* returns normally when its source / start or its target / goal is unknown.
C11_UnknownVertexAborts ==
    pc \in {"returned", "reconstructed", "bfs_returned", "dfs_returned"}
        => /\ start \in Nodes
           /\ (target # None => target \in Nodes)

\* C12: a target that is a vertex of the graph but is not reachable from the
\* start never makes a call raise: "no path" is a normal return value.
C12_NoPathNeverRaises ==
    (start \in Nodes /\ target \in Nodes /\ ~Reachable(start, target)) => error = ""

\* C13: create_distance_matrix on the result of find_all_shortest_paths gives a
\* matrix with an entry for every ordered pair of vertices: 0 on the diagonal,
\* the shortest distance for a reachable pair, +infinity for an unreachable one.
C13_DistanceMatrixTotal ==
    pc \in {"matrix_returned", "matrix_raised"}
        => /\ pc = "matrix_returned"
           /\ DOMAIN distance_matrix = Nodes
           /\ \A s \in Nodes :
                 /\ DOMAIN distance_matrix[s] = Nodes
                 /\ \A t \in Nodes :
                       distance_matrix[s][t] =
                           IF s = t THEN 0
                           ELSE IF Reachable(s, t) THEN MinLastWeight(s, t) ELSE Inf

\* the matrix is as C13 says whenever create_distance_matrix returns one
MatrixRightWhenReturned ==
    pc = "matrix_raised" \/ C13_DistanceMatrixTotal

IsPrefix(a, b) == Len(a) <= Len(b) /\ SubSeq(b, 1, Len(a)) = a

\* seq without the later occurrences of an element, from position i
RECURSIVE FirstOccurrences(_, _)
FirstOccurrences(seq, i) ==
    IF i > Len(seq) THEN <<>>
    ELSE IF \E j \in 1..(i - 1) : seq[j] = seq[i]
           THEN FirstOccurrences(seq, i + 1)
           ELSE <<seq[i]>> \o FirstOccurrences(seq, i + 1)

\* z is a vertex with no edge at all
Isolated(z) ==
    /\ z \in Nodes
    /\ adjacency_list[z] = <<>>
    /\ \A a \in Nodes : ~Arc(a, z)

ReachableFrom(s) == {t \in Nodes : Reachable(s, t)}

Elements(seq) == {seq[i] : i \in DOMAIN seq}

\* the least weight of a simple path from s to t that avoids seen, by trying
\* every simple path; Inf when there is none
RECURSIVE BruteForce(_, _, _)
BruteForce(s, t, seen) ==
    IF s = t THEN 0
    ELSE LET costs == {Minimum(ArcWeights(s, x)) + BruteForce(x, t, seen \cup {x}) :
                          x \in {y \in Nodes \ seen : Arc(s, y)}}
         IN  IF costs = {} \/ Minimum(costs) >= Inf THEN Inf ELSE Minimum(costs)

\* the three undirected edges 1 - 2, 2 - 3, 3 - 1 of weight 1, and nothing else
IsThreeCycle ==
    /\ calls = 3
    /\ all_undirected
    /\ Nodes = {1, 2, 3}
    /\ \A a \in Nodes, b \in Nodes : a # b => Arc(a, b) /\ ArcWeights(a, b) = {1}

HasNegativeWeight ==
    \E a \in Nodes : \E i \in DOMAIN adjacency_list[a] : adjacency_list[a][i][2] < 0

\* C14: a negative weight is never silently accepted: add_edge rejects it or
\* dijkstra_heap flags it, so dijkstra_heap never returns normally on a graph
\* that has an edge of negative weight, and whatever it returns is the true
\* minimum path weight.
C14_NegativeWeightRejectedOrFlagged ==
    pc = "returned"
        => /\ ~HasNegativeWeight
           /\ \A v \in Nodes :
                 dist[v] = IF Reachable(start, v) THEN MinPathWeight(start, v) ELSE Inf

\* what dijkstra_heap returns is right, negative weights or not
ReturnedDistancesRight ==
    pc = "returned"
        => \A v \in Nodes :
              dist[v] = IF Reachable(start, v) THEN MinPathWeight(start, v) ELSE Inf

\* C15 as stated: the visit order bfs_path returns is exactly the sequence of
\* dequeued vertices, and the one dfs_path returns is exactly the sequence of
\* vertices popped and processed (popped while not yet visited).
C15_VisitOrderIsTakenOrder ==
    /\ pc = "bfs_returned" => visited_order = taken
    /\ pc = "dfs_returned" => visited_order = FirstOccurrences(taken, 1)

\* C15, amended: bfs_path records a vertex when it is enqueued, so its visit
\* order starts with the dequeued vertices in dequeue order and, when a path is
\* found, may go on with vertices that were enqueued but never dequeued; it is
\* exactly the dequeued sequence when no path is found. The visit order of
\* dfs_path is exactly the sequence of vertices popped and processed.
C15_VisitOrderStartsWithDequeued ==
    /\ pc = "bfs_returned"
          => /\ IsPrefix(taken, visited_order)
             /\ NoDuplicates(visited_order)
             /\ path = NoPath => visited_order = taken
    /\ pc = "dfs_returned" => visited_order = FirstOccurrences(taken, 1)

\* bfs_path has returned a path and a visit order naming a vertex it never dequeued
C15_Witness ==
    /\ pc = "bfs_returned"
    /\ path # NoPath
    /\ Len(visited_order) > Len(taken)

\* C16: every path bfs_path or dfs_path returns starts at start, ends at goal,
\* follows edges of the graph and repeats no vertex; a call with start = goal
\* returns the path [start].
C16_PathsAreSimpleWalks ==
    pc \in {"bfs_returned", "dfs_returned"}
        => /\ path # NoPath => IsWalk(path, start, target) /\ NoDuplicates(path)
           /\ start = target => path = <<start>>

\* dfs_path has returned a path of two edges
C16_Witness ==
    /\ pc = "dfs_returned"
    /\ start # target
    /\ Len(path) = 3

\* C17: when the goal Z is a vertex without edges and the start is another
\* vertex, bfs_path and dfs_path return no path, and the visit order is free of
\* Z and made of exactly the vertices reachable from the start.
C17_IsolatedGoalNotFound ==
    (pc \in {"bfs_returned", "dfs_returned"} /\ Isolated(target) /\ start # target)
        => /\ path = NoPath
           /\ target \notin Elements(visited_order)
           /\ Elements(visited_order) = ReachableFrom(start)
           /\ NoDuplicates(visited_order)

\* a search from a vertex that has a neighbour to a vertex without edges has returned
C17_Witness ==
    /\ pc \in {"bfs_returned", "dfs_returned"}
    /\ Isolated(target)
    /\ start # target
    /\ Len(visited_order) >= 2

\* C18: on the sample graph, the dist dijkstra_heap returns for source A is,
\* for every vertex, the least weight over all simple paths from A.
C18_SampleGraphMatchesBruteForce ==
    (pc = "returned" /\ start = VertexA)
        => \A v \in Nodes : dist[v] = BruteForce(VertexA, v, {VertexA})

\* dijkstra_heap(g, "A") has returned on the sample graph, every vertex reached
C18_Witness ==
    /\ pc = "returned"
    /\ start = VertexA
    /\ adjacency_list = build_sample_graph
    /\ \A v \in Nodes : dist[v] # Inf

\* C19: on the cycle A - B - C - A of three edges of weight 1, dijkstra_heap
\* from A returns dist A = 0, B = 1, C = 1 and prev B = A, C = A.
C19_ThreeCycle ==
    (pc = "returned" /\ IsThreeCycle /\ start = 1)
        => /\ dist = <<0, 1, 1>>
           /\ prev = <<None, 1, 1>>

\* dijkstra_heap has returned on the cycle built by add_edge A-B, B-C, C-A
C19_Witness ==
    /\ pc = "returned"
    /\ start = 1
    /\ adjacency_list = << <<<<2, 1>>, <<3, 1>>>>, <<<<1, 1>>, <<3, 1>>>>, <<<<2, 1>>, <<1, 1>>>> >>

\* C20 as stated: on the sample graph dijkstra_heap from A gives G the distance 12.
C20_DistanceAToGIs12 ==
    (pc \in {"returned", "reconstructed"} /\ start = VertexA) => dist[VertexG] = 12

\* C20, amended: on the sample graph dijkstra_heap from A gives G the distance
\* 14, the weight of A - E - F - G (7 + 6 + 1), which no path from A to G beats.
C20_DistanceAToGIs14 ==
    (pc \in {"returned", "reconstructed"} /\ start = VertexA)
        => /\ dist[VertexG] = 14
           /\ BruteForce(VertexA, VertexG, {VertexA}) = 14

\* reconstruct_path(prev, "A", "G") has returned A, E, F, G on the sample graph
C20_Witness ==
    /\ pc = "reconstructed"
    /\ start = VertexA
    /\ target = VertexG
    /\ path = <<1, 5, 6, 7>>

\* the nodes of the list l in list order (at most as many as there are nodes)
RECURSIVE NodesFrom(_, _, _)
NodesFrom(l, n, k) ==
    IF n = None \/ k = 0 THEN <<>> ELSE <<n>> \o NodesFrom(l, l.next[n], k - 1)

NodesOf(l) == NodesFrom(l, l.head, Len(l.data) + 1)

PositionIn(seq, e) == CHOOSE i \in DOMAIN seq : seq[i] = e

\* out holds the nodes of in, each once, in non-decreasing order of data
IsSortedPermutation(l, in, out) ==
    /\ Len(out) = Len(in)
    /\ Elements(out) = Elements(in)
    /\ \A i \in 1..(Len(out) - 1) : l.data[out[i]] <= l.data[out[i + 1]]

\* C21: insertion_sort is a stable sort: the returned list is in non-decreasing
\* order of data, holds exactly the nodes of the input list, and keeps nodes of
\* equal data in the order they had in the input.
C21_InsertionSortStable ==
    pc = "sorted"
        => LET in == NodesOf(args)
               out == NodesOf(returned)
           IN  /\ IsSortedPermutation(args, in, out)
               /\ \A i \in DOMAIN out, j \in DOMAIN out :
                     (i < j /\ args.data[out[i]] = args.data[out[j]])
                         => PositionIn(in, out[i]) < PositionIn(in, out[j])

\* what insertion_sort returns is a sorted permutation of the nodes
InsertionSortSorts ==
    pc = "sorted" => IsSortedPermutation(args, NodesOf(args), NodesOf(returned))

\* the list c after its cables i and j are joined into one
Joined(c, i, j) ==
    LET rest == SelectSeq([k \in DOMAIN c |-> <<k, c[k]>>], LAMBDA e : e[1] # i /\ e[1] # j)
    IN  Append([k \in DOMAIN rest |-> rest[k][2]], c[i] + c[j])

\* the least total cost of joining the cables of c into one, by trying every
\* pair at every stage
RECURSIVE LeastConnectionCost(_)
LeastConnectionCost(c) ==
    IF Len(c) <= 1 THEN 0
    ELSE Minimum({c[p[1]] + c[p[2]] + LeastConnectionCost(Joined(c, p[1], p[2])) :
                     p \in {q \in (DOMAIN c) \X (DOMAIN c) : q[1] < q[2]}})

\* C22: min_cost_to_connect_cables returns the least total cost over all orders
\* of joining the cables pairwise; 0 for a list of at most one cable and 29 for
\* [4, 3, 2, 6].
C22_MinCostIsLeast ==
    pc = "cables_returned"
        => /\ returned = LeastConnectionCost(args)
           /\ Len(args) <= 1 => returned = 0
           /\ args = <<4, 3, 2, 6>> => returned = 29

\* min_cost_to_connect_cables([4, 3, 2, 6]) has returned
C22_Witness ==
    /\ pc = "cables_returned"
    /\ args = <<4, 3, 2, 6>>

RECURSIVE SumOver(_, _)
SumOver(f, S) ==
    IF S = {} THEN 0
    ELSE LET x == CHOOSE y \in S : TRUE IN f[x] + SumOver(f, S \ {x})

CostOf(S) == SumOver([i \in DOMAIN args.items |-> args.items[i].cost], S)

CaloriesOf(S) == SumOver([i \in DOMAIN args.items |-> args.items[i].calories], S)

Maximum(S) == CHOOSE x \in S : \A y \in S : y <= x

\* the most calories a set of items within the budget has
BestCalories ==
    Maximum({CaloriesOf(S) : S \in {T \in SUBSET DOMAIN args.items : CostOf(T) <= args.budget}})

\* C23: dynamic_programming returns the optimal 0/1-knapsack answer: the value
\* is the most calories of any set of items whose cost is within the budget,
\* and the list names distinct items whose cost is within the budget and whose
\* calories add up to the value.
C23_KnapsackOptimal ==
    pc = "dp_returned"
        => LET chosen == returned[1]
           IN  /\ returned[2] = BestCalories
               /\ Elements(chosen) \subseteq DOMAIN args.items
               /\ NoDuplicates(chosen)
               /\ CostOf(Elements(chosen)) <= args.budget
               /\ CaloriesOf(Elements(chosen)) = returned[2]

\* dynamic_programming has returned two of three items, the budget not allowing all
C23_Witness ==
    /\ pc = "dp_returned"
    /\ Len(args.items) = 3
    /\ Len(returned[1]) = 2
    /\ CostOf(DOMAIN args.items) > args.budget

Denominations == {50, 25, 10, 5, 2, 1}

\* the value and the number of the coins of a dict
ValueOfCoins(d) == SumOver([k \in DOMAIN d |-> k * d[k]], DOMAIN d)

NumberOfCoins(d) == SumOver(d, DOMAIN d)

\* the amounts up to a that k more coins make from the amounts in S
RECURSIVE LeastCoinsFrom(_, _, _)
LeastCoinsFrom(S, k, a) ==
    IF a \in S THEN k
    ELSE LeastCoinsFrom({t + c : t \in S, c \in Denominations} \cap (0..a), k + 1, a)

\* the least number of coins that make the amount a
LeastCoins(a) == LeastCoinsFrom({0}, 0, a)

IsChange(d) ==
    /\ DOMAIN d \subseteq Denominations
    /\ \A k \in DOMAIN d : d[k] \in Nat \ {0}
    /\ ValueOfCoins(d) = args

\* C24: for every amount find_min_coins returns counts of denominations of
\* COINS whose value is the amount and whose number is the least possible, and
\* find_coins_greedy returns counts of the same value and the same number.
C24_ChangeIsMinimal ==
    pc = "coins_returned"
        => /\ IsChange(returned[2])
           /\ NumberOfCoins(returned[2]) = LeastCoins(args)
           /\ IsChange(returned[1])
           /\ NumberOfCoins(returned[1]) = NumberOfCoins(returned[2])

\* both algorithms have returned the change for 113: 50 x 2, 10, 2, 1
C24_Witness ==
    /\ pc = "coins_returned"
    /\ args = 113
    /\ returned[2] = [k \in {50, 10, 2, 1} |-> IF k = 50 THEN 2 ELSE 1]
    /\ NumberOfCoins(returned[1]) = 5

\* dijkstra_heap is between its first heappop and its return
Running == pc \in {"while", "for"}

\* C25: a run of dijkstra_heap starts with dist[source] = 0 and every other
\* distance infinite; no later step raises a distance, and prev[v] changes only
\* in a step that lowers dist[v].
C25_DistOnlyDecreases ==
    [][/\ (pc = "idle" /\ pc' = "while")
            => /\ dist'[start'] = 0
               /\ \A v \in DOMAIN dist' \ {start'} : dist'[v] = Inf
       /\ Running
            => /\ DOMAIN dist' = DOMAIN dist
               /\ \A v \in DOMAIN dist : dist'[v] <= dist[v]
               /\ \A v \in DOMAIN prev : prev'[v] # prev[v] => dist'[v] < dist[v]]_vars

\* a distance has been lowered twice: the heap still holds the entry of the
\* first, larger value
C25_Witness ==
    /\ Running
    /\ \E i \in DOMAIN heap :
          /\ heap[i][1] # Inf
          /\ heap[i][1] > dist[heap[i][2]]
          /\ prev[heap[i][2]] # None

\* C26: a popped entry (d, u) with d > dist[u] is discarded with no other
\* effect: dist and prev stay, nothing is pushed, the heap loses that entry
\* only. The neighbours of u are relaxed only from an entry whose key is the
\* current dist[u].
C26_LazyDeletion ==
    [][/\ (pc = "while" /\ heap # <<>> /\ current_dist' > dist[u'])
            => /\ dist' = dist
               /\ prev' = prev
               /\ pc' = "while"
               /\ Elements(heap') \subseteq Elements(heap)
               /\ \A e \in Elements(heap) :
                     Occurrences(heap', e) =
                         Occurrences(heap, e) - (IF e = <<current_dist', u'>> THEN 1 ELSE 0)
       /\ (pc = "while" /\ pc' = "for") => current_dist' = dist[u']
       /\ (Running /\ (dist' # dist \/ prev' # prev \/ Len(heap') > Len(heap)))
            => pc = "for" /\ current_dist = dist[u]]_vars

\* an outdated entry has just been popped and discarded
C26_Witness ==
    /\ pc = "while"
    /\ u # None
    /\ current_dist > dist[u]

\* some path leads from a vertex back to itself
HasCycle == \E v \in Nodes : \E w \in Nodes : Arc(v, w) /\ v \in ReachableFrom(w)

\* C27: with weights >= 0 a run of dijkstra_heap reaches the empty heap and
\* returns; bfs_path and dfs_path return as well, cycles or not.
C27_Termination ==
    (Running \/ pc \in {"bfs_while", "dfs_while"})
        ~> ((pc = "returned" /\ heap = <<>>) \/ pc \in {"bfs_returned", "dfs_returned"})

\* a call has returned on a graph with a cycle
C27_Witness ==
    /\ pc \in {"returned", "bfs_returned", "dfs_returned"}
    /\ HasCycle
    /\ ~HasNegativeWeight

Last(seq) == seq[Len(seq)]

\* the paths of added are the extensions of p by the vertices of S, in
\* descending order when direction = -1, in ascending order when it is 1
ExtendsInOrder(added, p, S, direction) ==
    /\ Len(added) = Cardinality(S)
    /\ \A k \in DOMAIN added : added[k] = Append(p, Last(added[k])) /\ Last(added[k]) \in S
    /\ \A k \in DOMAIN added : \A m \in DOMAIN added :
          k < m => direction * Last(added[k]) < direction * Last(added[m])

\* one loop iteration of dfs_path popping the path p
DfsStepIsRight ==
    LET p == Last(args.stack)
        node == Last(p)
        rest == SubSeq(args.stack, 1, Len(args.stack) - 1)
        unvisited == Neighbors(adjacency_list, node) \ (args.visited \cup {node})
        stack1 == args'.stack
    IN  /\ args'.visited \subseteq args.visited \cup {node}
        /\ NoDuplicates(args'.visited_order)
        /\ IF node \in args.visited
             THEN /\ args'.visited_order = args.visited_order
                  /\ stack1 = rest
                  /\ pc' = "dfs_while"
             ELSE /\ args'.visited = args.visited \cup {node}
                  /\ args'.visited_order = Append(args.visited_order, node)
                  /\ IF node = target
                       THEN pc' = "dfs_returned" /\ path' = p /\ visited_order' = args'.visited_order
                       ELSE /\ pc' = "dfs_while"
                            /\ SubSeq(stack1, 1, Len(rest)) = rest
                            /\ ExtendsInOrder(SubSeq(stack1, Len(rest) + 1, Len(stack1)),
                                              p, unvisited, -1)
                            /\ unvisited # {}
                                 => /\ Last(Last(stack1)) = Minimum(unvisited)
                                    /\ Last(Last(stack1)) \notin args'.visited

\* one loop iteration of bfs_path dequeuing the path p
BfsStepIsRight ==
    LET p == Head(args.queue)
        node == Last(p)
        rest == Tail(args.queue)
        unvisited == Neighbors(adjacency_list, node) \ args.visited
        queue1 == args'.queue
    IN  IF node = target
          THEN pc' = "bfs_returned" /\ path' = p
          ELSE /\ pc' = "bfs_while"
               /\ SubSeq(queue1, 1, Len(rest)) = rest
               /\ ExtendsInOrder(SubSeq(queue1, Len(rest) + 1, Len(queue1)), p, unvisited, 1)
               /\ args'.visited = args.visited \cup unvisited

\* C28: dfs_path marks a vertex visited only when it pops and processes it,
\* pushes the unvisited neighbours in descending order and returns as soon as
\* it pops a path that ends at the goal; no vertex is twice in the visit
\* order, and after a vertex with unvisited neighbours the smallest of them is
\* on top of the stack, unvisited, so it is processed next. bfs_path appends
\* the unvisited neighbours in ascending order.
C28_SearchOrder ==
    [][/\ (pc = "dfs_while" /\ args.stack # <<>>) => DfsStepIsRight
       /\ (pc = "bfs_while" /\ args.queue # <<>>) => BfsStepIsRight]_vars

\* dfs_path has just pushed two neighbours of the vertex it processed, the
\* smaller one on top
C28_Witness ==
    /\ pc = "dfs_while"
    /\ Len(args.stack) >= 2
    /\ LET top == Last(args.stack)
           below == args.stack[Len(args.stack) - 1]
       IN  /\ Len(top) >= 2
           /\ Len(below) = Len(top)
           /\ SubSeq(below, 1, Len(below) - 1) = SubSeq(top, 1, Len(top) - 1)
           /\ Last(top) < Last(below)
           /\ Last(args.visited_order) = top[Len(top) - 1]

\* C29: in a run of dijkstra_heap with weights >= 0 the popped keys never
\* decrease, every heap entry (d, v) has d >= dist[v], the neighbours of a
\* vertex are relaxed at most once, from the entry with d = dist[v], and after
\* that pop dist[v] and prev[v] stay as they are.
C29_SettledOnce ==
    [][Running
        => /\ \A i \in DOMAIN heap : heap[i][1] >= dist[heap[i][2]]
           /\ (pc = "while" /\ heap # <<>>)
                => /\ u # None => current_dist' >= current_dist
                   /\ \A i \in DOMAIN heap : current_dist' <= heap[i][1]
                   /\ pc' = "for" => current_dist' = dist[u']
                   /\ taken' # taken => current_dist' = dist[u']
           /\ NoDuplicates(taken')
           /\ \A v \in Elements(taken) : dist'[v] = dist[v] /\ prev'[v] = prev[v]]_vars

\* two vertices have been processed and an outdated entry skipped in between
\* or after
C29_Witness ==
    /\ pc = "returned"
    /\ Len(taken) >= 3
    /\ \E v \in DOMAIN dist : dist[v] = 1 /\ prev[v] # start

\* the vertices met by following prev from v, v first, at most n of them
RECURSIVE PrevChain(_, _)
PrevChain(v, n) ==
    IF v = None \/ n = 0 THEN <<>> ELSE <<v>> \o PrevChain(prev[v], n - 1)

\* C30: when dijkstra_heap has returned (weights >= 0), prev[v] is None
\* exactly for the source and the vertices that cannot be reached; any other
\* v has an edge (prev[v], v, w) with dist[v] = dist[prev[v]] + w; following
\* prev from a reachable vertex ends at the source without a repeated vertex,
\* and the path reconstruct_path returns for a reachable target is that chain
\* reversed, its weight being dist[target].
C30_PrevIsShortestPathTree ==
    pc \in {"returned", "reconstructed"}
        => /\ prev[start] = None
           /\ \A v \in Nodes : (prev[v] = None) = (v = start \/ ~Reachable(start, v))
           /\ \A v \in Nodes :
                 prev[v] # None
                     => /\ Arc(prev[v], v)
                        /\ \E w \in ArcWeights(prev[v], v) : dist[v] = dist[prev[v]] + w
           /\ \A v \in ReachableFrom(start) :
                 LET chain == PrevChain(v, Cardinality(Nodes) + 1)
                 IN  NoDuplicates(chain) /\ Last(chain) = start
           /\ (pc = "reconstructed" /\ Reachable(start, target))
                 => /\ path = Reverse(PrevChain(target, Cardinality(Nodes) + 1))
                    /\ path[1] = start
                    /\ LeastCost(path, 1) = dist[target]

\* reconstruct_path has returned a path of three vertices and weight 1, one
\* of its two edges weighing 0
C30_Witness ==
    /\ pc = "reconstructed"
    /\ Len(path) = 3
    /\ prev[target] = path[2]
    /\ prev[path[2]] = start
    /\ dist[target] = 1

====
